---- MODULE Spec2Model ----
(***************************************************************************)
(* Token lifecycle of homebridge-hubspace's TokenService (proactive-timer  *)
(* revision, src/unnamed/part_000 lines 1-402).                            *)
(*                                                                         *)
(* Time is counted in abstract ticks.  One event-loop macrotask (an        *)
(* external call, a timer callback, the arrival of an HTTP response) runs  *)
(* to its next network await as one action; an await on a promise that is  *)
(* already resolved continues inside the same action.  Timers fire on      *)
(* time: the clock does not pass a due timer.                              *)
(***************************************************************************)
EXTENDS Integers, Sequences, FiniteSets, TLC

\* ---------------------------------------------------------------- bounds
MaxTime == 7          \* the clock stops advancing here
MaxTok == 3           \* token-sets the identity endpoint will issue
MaxWaiters == 2       \* getToken() callers that join one pending procedure
MaxTimerReqs == 1     \* refresh requests of timer callbacks outstanding at once

\* lifetimes <<expires_in, refresh_expires_in>> the endpoint answers with
Lifetimes == { <<5, 10>>, <<5, 3>> }
Users == {"a", "b"}

\* ------------------------------------------------------- program constants
DebounceDelay == 1    \* the 500 ms quiescence window, in ticks
NoToken == 0          \* an undefined token string
Undef == -1           \* an undefined Date / an unarmed timer
InvalidDate == -2     \* new Date(undefined): getTime() is NaN

VARIABLES
    now,                     \* the wall clock
    username, storage,       \* login() arguments (storage: a handle was given)
    emailOtp,                \* login() argument: a one-time code was given
    verboseLogging,          \* login() argument: verbose logging is switched on
    accessToken, accessTokenExpiration,
    refreshToken, refreshTokenExpiration,
    authenticatingPromise,   \* TRUE while the pending-authentication slot is set
    refreshTimer,            \* fire time of the armed proactive timer, or Undef
    saveDebounceTimer,       \* fire time of the pending debounced save, or Undef
    file,                    \* hubspace-tokens.json: <<>> or <<record>>
    proc,                    \* where the authenticate() body is suspended
    procTok,                 \* refresh token carried by its outstanding request
    timerReqs,               \* refresh tokens carried by timer-callback requests
    waiting,                 \* callers awaiting the pending promise behind the first
    resuming,                \* callers whose continuation is queued (promise resolved)
    lastReturn,              \* how the latest getToken() call ended
    nextTok,                 \* next token-set the endpoint issues
    hSetTime,                \* history: when setTokens() last assigned the fields
    hPendingSets,            \* history: saves scheduled since the last debounce expiry
    hLastSet,                \* history: the Session as the last scheduled save saw it
    hRevoked,                \* history: invalid_grant seen, no token-set since
    hWrittenSets,            \* history: scheduled saves the last write stood for
    hOwner,                  \* history: the username the Session's tokens were obtained for
    hFileSet,                \* history: the Session the file's record was written from
    hArmed,                  \* history: proactive timeouts live in the event loop
    hSaves,                  \* history: debounce timeouts live in the event loop
    fsFails,                 \* the file system refuses reads, writes and deletions
    hProc,                   \* history: facts about the current/last procedure
    hInst                    \* history: facts about the instance since login()

vars == << now, username, storage, emailOtp, verboseLogging, accessToken, accessTokenExpiration,
           refreshToken, refreshTokenExpiration, authenticatingPromise,
           refreshTimer, saveDebounceTimer, file, proc, procTok, timerReqs,
           waiting, resuming, lastReturn, nextTok,
           hSetTime, hPendingSets, hLastSet, hRevoked, hWrittenSets, hOwner, hArmed, hSaves, hFileSet, fsFails, hProc, hInst >>

\* ------------------------------------------------------------ pure helpers
CeilDiv(a, b) == (a + b - 1) \div b

\* Date comparison `d < new Date()`; false for an Invalid Date (NaN)
DateBefore(d, t) == d # InvalidDate /\ d < t

\* Date.prototype.toISOString as used by the save callback: an Invalid Date
\* throws RangeError; a Date gives the text of its instant (a one-element
\* sequence here); for an undefined Date `?.toISOString()` gives undefined and
\* JSON.stringify leaves the field out (the empty sequence here)
ISOThrows(d) == d = InvalidDate

\* faulty variant: the text keeps the date to a coarser unit than the Date has
toISOStringCoarse(d) == IF d = Undef THEN << >> ELSE << 2 * (d \div 2) >>

toISOString(d) == IF d = Undef THEN << >> ELSE << d >>

\* new Date(data.field) as used by restore: the instant the text names; a
\* missing field gives Invalid Date
DateFromJSON(x) == IF x = << >> THEN InvalidDate ELSE x[1]

NoResponse == [ok |-> FALSE, tok |-> NoToken, expires_in |-> 0, refresh_expires_in |-> 0]
TokenResponse(k, lt) == [ok |-> TRUE, tok |-> k, expires_in |-> lt[1], refresh_expires_in |-> lt[2]]

\* the instance (and the file it manages) as one record, so that the
\* methods below are functions from instance to instance
W == [ now |-> now, username |-> username, storage |-> storage,
       accessToken |-> accessToken, accessTokenExpiration |-> accessTokenExpiration,
       refreshToken |-> refreshToken, refreshTokenExpiration |-> refreshTokenExpiration,
       refreshTimer |-> refreshTimer, saveDebounceTimer |-> saveDebounceTimer,
       file |-> file,
       hSetTime |-> hSetTime, hPendingSets |-> hPendingSets,
       hLastSet |-> hLastSet, hRevoked |-> hRevoked,
       hWrittenSets |-> hWrittenSets, hOwner |-> hOwner,
       hFileSet |-> hFileSet,
       hArmed |-> hArmed, hSaves |-> hSaves, fsFails |-> fsFails ]

Apply(w) ==
    /\ accessToken' = w.accessToken
    /\ accessTokenExpiration' = w.accessTokenExpiration
    /\ refreshToken' = w.refreshToken
    /\ refreshTokenExpiration' = w.refreshTokenExpiration
    /\ refreshTimer' = w.refreshTimer
    /\ saveDebounceTimer' = w.saveDebounceTimer
    /\ file' = w.file
    /\ hSetTime' = w.hSetTime
    /\ hPendingSets' = w.hPendingSets
    /\ hLastSet' = w.hLastSet
    /\ hRevoked' = w.hRevoked
    /\ hWrittenSets' = w.hWrittenSets
    /\ hOwner' = w.hOwner
    /\ hFileSet' = w.hFileSet
    /\ hArmed' = w.hArmed
    /\ hSaves' = w.hSaves
    /\ fsFails' = w.fsFails

Session(w) == << w.accessToken, w.accessTokenExpiration,
                 w.refreshToken, w.refreshTokenExpiration >>
EmptySession == << NoToken, Undef, NoToken, Undef >>

\* faulty variant: every access token counts as expired
isAccessTokenExpiredAlways(w) == TRUE

isAccessTokenExpired(w) ==
    w.accessTokenExpiration = Undef \/ DateBefore(w.accessTokenExpiration, w.now)

isRefreshTokenExpired(w) ==
    w.refreshTokenExpiration = Undef \/ DateBefore(w.refreshTokenExpiration, w.now)

\* faulty variant: the expiry is not looked at
hasValidTokenIgnoresExpiry(w) == w.accessToken # NoToken

hasValidToken(w) == w.accessToken # NoToken /\ ~isAccessTokenExpired(w)

\* ------------------------------------------------------------------ methods
\* `if (this._refreshTimer) { clearTimeout(this._refreshTimer); ... = undefined }`
cancelRefreshTimer(w) ==
    [w EXCEPT !.refreshTimer = Undef,
              !.hArmed = IF w.refreshTimer # Undef THEN @ - 1 ELSE @]

\* `this._refreshTimer = setTimeout(callback, delayMs)`, due at time t
armRefreshTimer(w, t) == [w EXCEPT !.refreshTimer = t, !.hArmed = @ + 1]

\* fs.unlinkSync inside try/catch: a failure is logged and the file stays
unlink(w) == IF w.storage /\ ~w.fsFails THEN << >> ELSE w.file

\* faulty variant: the file is deleted first and outside the try block, so
\* a failing deletion throws before anything is unset
clearTokensUnlinkFirst(w) ==
    IF w.storage /\ w.fsFails /\ w.file # << >> THEN w
    ELSE [cancelRefreshTimer(w) EXCEPT
              !.accessToken = NoToken, !.refreshToken = NoToken,
              !.accessTokenExpiration = Undef, !.refreshTokenExpiration = Undef,
              !.hOwner = "",
              !.hFileSet = IF unlink(w) = << >> THEN EmptySession ELSE @,
              !.file = unlink(w)]

clearTokens(w) ==
    [cancelRefreshTimer(w) EXCEPT
              !.accessToken = NoToken, !.refreshToken = NoToken,
              !.accessTokenExpiration = Undef, !.refreshTokenExpiration = Undef,
              !.hOwner = "",
              !.hFileSet = IF unlink(w) = << >> THEN EmptySession ELSE @,
              !.file = unlink(w)]

\* faulty variant: the timer is set for the access token's expiry, not 80% of the way
scheduleTokenRefreshAtExpiry(w) ==
    LET w1 == cancelRefreshTimer(w)
        aexp == w.accessTokenExpiration
        rexp == w.refreshTokenExpiration
    IN  IF aexp \in {Undef, InvalidDate} \/ rexp \in {Undef, InvalidDate} THEN w1
        ELSE IF aexp < rexp
             THEN armRefreshTimer(w1, IF aexp > w.now THEN aexp ELSE w.now)
             ELSE w1

\* faulty variant: the timer is armed without looking at the refresh token's expiry
scheduleTokenRefreshUnguarded(w) ==
    LET aexp == w.accessTokenExpiration
        rexp == w.refreshTokenExpiration
        tokenLifetime == aexp - w.now
        delay == IF tokenLifetime > 0 THEN CeilDiv(4 * tokenLifetime, 5) ELSE 0
    IN  IF aexp \in {Undef, InvalidDate} \/ rexp \in {Undef, InvalidDate}
        THEN cancelRefreshTimer(w)
        ELSE armRefreshTimer(cancelRefreshTimer(w), w.now + delay)

\* faulty variant: a new timer is armed without cancelling the one before
scheduleTokenRefreshNoCancel(w) ==
    LET aexp == w.accessTokenExpiration
        rexp == w.refreshTokenExpiration
        tokenLifetime == aexp - w.now
        refreshAt5 == 5 * w.now + 4 * tokenLifetime
        delay == IF tokenLifetime > 0 THEN CeilDiv(4 * tokenLifetime, 5) ELSE 0
    IN  IF aexp = Undef \/ rexp = Undef THEN w
        ELSE IF aexp = InvalidDate \/ rexp = InvalidDate THEN w
        ELSE IF refreshAt5 < 5 * rexp
             THEN armRefreshTimer(w, w.now + delay)
             ELSE w

scheduleTokenRefresh(w) ==
    LET w1 == cancelRefreshTimer(w)
        aexp == w.accessTokenExpiration
        rexp == w.refreshTokenExpiration
        tokenLifetime == aexp - w.now
        \* refreshAt = now + 0.8 * tokenLifetime, kept exact in fifths of a tick
        refreshAt5 == 5 * w.now + 4 * tokenLifetime
        delay == IF tokenLifetime > 0 THEN CeilDiv(4 * tokenLifetime, 5) ELSE 0
    IN  IF aexp = Undef \/ rexp = Undef THEN w1
        ELSE IF aexp = InvalidDate \/ rexp = InvalidDate THEN w1
        ELSE IF refreshAt5 < 5 * rexp
             THEN armRefreshTimer(w1, w.now + delay)
             ELSE w1

\* faulty variant: a save that is already pending is left to fire at its old time
saveTokensToStorageKeepsTimer(w) ==
    IF ~w.storage \/ w.refreshToken = NoToken THEN w
    ELSE [w EXCEPT !.saveDebounceTimer = IF @ # Undef THEN @ ELSE w.now + DebounceDelay,
                   !.hSaves = IF w.saveDebounceTimer # Undef THEN @ ELSE @ + 1,
                   !.hPendingSets = IF @ < MaxTok THEN @ + 1 ELSE @,
                   !.hLastSet = Session(w)]

saveTokensToStorage(w) ==
    IF ~w.storage \/ w.refreshToken = NoToken THEN w
    ELSE [w EXCEPT !.saveDebounceTimer = w.now + DebounceDelay,
                   !.hSaves = IF w.saveDebounceTimer # Undef THEN @ ELSE @ + 1,
                   !.hPendingSets = IF @ < MaxTok THEN @ + 1 ELSE @,
                   !.hLastSet = Session(w)]

\* faulty variant: a missing response leaves the tokens as they are
setTokensKeepsOnFailure(w, response) ==
    IF ~response.ok THEN w
    ELSE scheduleTokenRefresh(saveTokensToStorage(
            [w EXCEPT !.accessToken = response.tok,
                      !.refreshToken = response.tok,
                      !.accessTokenExpiration = w.now + response.expires_in,
                      !.refreshTokenExpiration = w.now + response.refresh_expires_in,
                      !.hSetTime = w.now, !.hOwner = w.username,
                      !.hRevoked = FALSE]))

\* faulty variant: the proactive timer is armed for the first token-set of a
\* Session only, not anew for the token-sets that replace it
setTokensArmsOnlyFirst(w, response) ==
    LET w1 == saveTokensToStorage(
                [w EXCEPT !.accessToken = response.tok,
                          !.refreshToken = response.tok,
                          !.accessTokenExpiration = w.now + response.expires_in,
                          !.refreshTokenExpiration = w.now + response.refresh_expires_in,
                          !.hSetTime = w.now, !.hOwner = w.username,
                          !.hRevoked = FALSE])
    IN  IF ~response.ok THEN clearTokens(w)
        ELSE IF w.accessToken = NoToken THEN scheduleTokenRefresh(w1)
        ELSE w1

\* faulty variant: the save and the timer are scheduled before the fields
\* of the new token-set are assigned
setTokensSchedulesFirst(w, response) ==
    IF ~response.ok THEN clearTokens(w)
    ELSE [scheduleTokenRefresh(saveTokensToStorage(w)) EXCEPT
                      !.accessToken = response.tok,
                      !.refreshToken = response.tok,
                      !.accessTokenExpiration = w.now + response.expires_in,
                      !.refreshTokenExpiration = w.now + response.refresh_expires_in,
                      !.hSetTime = w.now, !.hOwner = w.username,
                      !.hRevoked = FALSE]

setTokens(w, response) ==
    IF ~response.ok THEN clearTokens(w)
    ELSE scheduleTokenRefresh(saveTokensToStorage(
            [w EXCEPT !.accessToken = response.tok,
                      !.refreshToken = response.tok,
                      !.accessTokenExpiration = w.now + response.expires_in,
                      !.refreshTokenExpiration = w.now + response.refresh_expires_in,
                      !.hSetTime = w.now, !.hOwner = w.username,
                      !.hRevoked = FALSE]))

\* faulty variant: the record's username is not compared
restoreTokensAnyUser(w) ==
    IF ~w.storage THEN w
    ELSE IF w.file = << >> THEN w
    ELSE LET data == w.file[1] IN
         scheduleTokenRefresh(
            [w EXCEPT !.refreshToken = data.refreshToken,
                      !.refreshTokenExpiration = DateFromJSON(data.refreshTokenExpiration),
                      !.accessToken = data.accessToken,
                      !.accessTokenExpiration = DateFromJSON(data.accessTokenExpiration),
                      !.hSetTime = Undef, !.hOwner = data.username])

restoreTokensFromStorage(w) ==
    IF ~w.storage THEN w
    ELSE IF w.file = << >> THEN w
    ELSE IF w.fsFails THEN w   \* readFileSync throws; caught and logged
    ELSE LET data == w.file[1] IN
         IF data.username = w.username
         THEN scheduleTokenRefresh(
                [w EXCEPT !.refreshToken = data.refreshToken,
                          !.refreshTokenExpiration = DateFromJSON(data.refreshTokenExpiration),
                          !.accessToken = data.accessToken,
                          !.accessTokenExpiration = DateFromJSON(data.accessTokenExpiration),
                          !.hSetTime = Undef, !.hOwner = data.username])
         ELSE w

\* faulty variant: the callback runs but writes nothing
saveCallbackSkipsWrite(w) ==
    [w EXCEPT !.saveDebounceTimer = Undef, !.hPendingSets = 0, !.hSaves = @ - 1,
              !.hWrittenSets = w.hPendingSets]

\* the callback of the debounce timer
saveCallback(w) ==
    LET w1 == [w EXCEPT !.saveDebounceTimer = Undef, !.hPendingSets = 0,
                        !.hSaves = @ - 1,
                        !.hWrittenSets = w.hPendingSets]
        data == [ username |-> w.username,
                  refreshToken |-> w.refreshToken,
                  refreshTokenExpiration |-> toISOString(w.refreshTokenExpiration),
                  accessToken |-> w.accessToken,
                  accessTokenExpiration |-> toISOString(w.accessTokenExpiration) ]
    IN  IF ISOThrows(w.refreshTokenExpiration) \/ ISOThrows(w.accessTokenExpiration)
        THEN w1
        ELSE IF w.fsFails THEN w1   \* writeFileSync throws; caught and logged
        ELSE [w1 EXCEPT !.file = << data >>, !.hFileSet = Session(w)]

\* faulty variant: no refresh grant is ever posted
refreshSyncNeverSends(w) == [w |-> w, sent |-> FALSE]

\* synchronous part of getTokenFromRefreshToken(): the instance afterwards and
\* whether a request was posted
refreshSync(w) ==
    IF isRefreshTokenExpired(w) THEN [w |-> clearTokens(w), sent |-> FALSE]
    ELSE IF w.refreshToken = NoToken THEN [w |-> w, sent |-> FALSE]
    ELSE [w |-> w, sent |-> TRUE]

\* faulty variant: invalid_grant leaves the tokens in place
refreshCatchKeepsTokens(w, err) == w

\* faulty variant: every failure of the refresh grant clears the tokens
refreshCatchAlwaysClears(w, err) ==
    [clearTokens(w) EXCEPT !.hRevoked = (err = "invalid_grant") \/ w.hRevoked]

\* its catch block, for the error the request failed with
refreshCatch(w, err) ==
    IF err = "invalid_grant" THEN [clearTokens(w) EXCEPT !.hRevoked = TRUE] ELSE w

\* ------------------------------------------------------------------- state
NoProc == [hadRefresh |-> FALSE, refreshReqs |-> 0, pwdReqs |-> 0,
           refreshOk |-> FALSE, done |-> FALSE, failed |-> FALSE,
           result |-> NoToken, joined |-> 0, resumed |-> 0, afterRevoke |-> FALSE,
           credErr |-> "", warned |-> 0]

\* what has happened to the instance since login(): whether a password grant
\* carrying the one-time code has succeeded, the refresh tokens the endpoint
\* has answered invalid_grant for, and the facts of its start-up: how login()
\* found it, the requests it sent and whether one failed up to the first
\* getToken() return, whether the proactive timer has fired before it, and
\* what that call returned (Undef before it).  The start-up facts are kept until that call has returned and
\* the save it left pending has run; after that start is "closed".
NoInst == [start |-> "none", refreshSent |-> 0, pwdSent |-> 0,
           grantFailed |-> FALSE, firstTok |-> Undef, timerFired |-> FALSE,
           otpUsed |-> FALSE, dead |-> {}]

SentRefresh(h) == IF h.firstTok = Undef THEN [h EXCEPT !.refreshSent = @ + 1] ELSE h
SentPwd(h) == IF h.firstTok = Undef THEN [h EXCEPT !.pwdSent = @ + 1] ELSE h
GrantFailed(h) == IF h.firstTok = Undef THEN [h EXCEPT !.grantFailed = TRUE] ELSE h
Fired(h) == IF h.firstTok = Undef THEN [h EXCEPT !.timerFired = TRUE] ELSE h
Closed(h, timer) ==
    IF h.firstTok # Undef /\ timer = Undef
    THEN [h EXCEPT !.start = "closed", !.refreshSent = 0, !.pwdSent = 0,
                   !.grantFailed = FALSE, !.firstTok = NoToken,
                   !.timerFired = FALSE]
    ELSE h
FirstReturn(h, tok, timer) ==
    Closed(IF h.firstTok = Undef THEN [h EXCEPT !.firstTok = tok] ELSE h, timer)
AnsweredInvalid(h, err, tok) ==
    IF err = "invalid_grant" THEN [h EXCEPT !.dead = @ \cup {tok}] ELSE h

\* how login() found the instance: "fresh" with a storage handle and no
\* durable record; "refreshable" with an adopted record whose refresh token
\* is unexpired and whose access token is expired; "valid" with an adopted
\* record whose access token has a date of expiry that has not passed
StartOf(w0, w) ==
    IF w0.storage /\ w0.file = << >> THEN "fresh"
    ELSE IF /\ w0.storage /\ w0.file # << >> /\ w0.file[1].username = w0.username
            /\ w.accessToken # NoToken
            /\ w.accessTokenExpiration \notin {Undef, InvalidDate}
            /\ w.accessTokenExpiration >= w.now
         THEN "valid"
    ELSE IF /\ w0.storage /\ w0.file # << >> /\ w0.file[1].username = w0.username
            /\ w.refreshToken # NoToken /\ w.accessToken # NoToken
            /\ w.refreshTokenExpiration # InvalidDate /\ ~isRefreshTokenExpired(w)
            /\ isAccessTokenExpired(w)
         THEN "refreshable"
         ELSE "other"

\* getToken() is an async function that never throws: it resolves with
\* this._accessToken, a value or undefined
Returned(tok) == [kind |-> "resolved", tok |-> tok]
NothingReturned == [kind |-> "none", tok |-> NoToken]
\* a rejected promise; no path of getToken() produces it
Rejected == [kind |-> "rejected", tok |-> NoToken]

Init ==
    /\ now = 0
    /\ username = "" /\ storage = FALSE /\ emailOtp = FALSE /\ verboseLogging = FALSE
    /\ accessToken = NoToken /\ accessTokenExpiration = Undef
    /\ refreshToken = NoToken /\ refreshTokenExpiration = Undef
    /\ authenticatingPromise = FALSE
    /\ refreshTimer = Undef /\ saveDebounceTimer = Undef
    /\ file = << >>
    /\ proc = "idle" /\ procTok = NoToken
    /\ timerReqs = << >>
    /\ waiting = 0 /\ resuming = 0
    /\ lastReturn = NothingReturned
    /\ nextTok = 1
    /\ hSetTime = Undef /\ hPendingSets = 0 /\ hLastSet = EmptySession
    /\ hRevoked = FALSE /\ hWrittenSets = 0
    /\ hOwner = "" /\ hArmed = 0 /\ hSaves = 0 /\ fsFails = FALSE
    /\ hFileSet = EmptySession
    /\ hProc = NoProc
    /\ hInst = NoInst

\* continuations of resolved promises are still queued: no macrotask runs
MicrotasksPending == resuming > 0

TimerDue == refreshTimer # Undef /\ refreshTimer <= now
DebounceDue == saveDebounceTimer # Undef /\ saveDebounceTimer <= now

RemoveAt(s, i) == SubSeq(s, 1, i - 1) \o SubSeq(s, i + 1, Len(s))

\* ------------------------------------------------------------------ actions
\* login(username, password, storage, emailOtp, verboseLogging), called once
\* on the constructed singleton
LoginWith(u, st, otp, verbose) ==
    /\ username = ""
    /\ username' = u /\ storage' = st /\ emailOtp' = otp /\ verboseLogging' = verbose
    /\ LET w0 == [W EXCEPT !.username = u, !.storage = st]
           w == restoreTokensFromStorage(w0)
       IN  /\ Apply(w)
           /\ hInst' = [NoInst EXCEPT !.start = StartOf(w0, w)]
    /\ UNCHANGED << now, authenticatingPromise, proc, procTok, timerReqs,
                    waiting, resuming, lastReturn, nextTok, hProc >>

\* ... with verbose logging left off, the default
Login(u, st, otp) == LoginWith(u, st, otp, FALSE)

\* the process ends and a new one constructs the singleton; only the file stays
Restart ==
    /\ username # ""
    /\ ~MicrotasksPending
    /\ username' = "" /\ storage' = FALSE /\ emailOtp' = FALSE /\ verboseLogging' = FALSE
    /\ accessToken' = NoToken /\ accessTokenExpiration' = Undef
    /\ refreshToken' = NoToken /\ refreshTokenExpiration' = Undef
    /\ authenticatingPromise' = FALSE
    /\ refreshTimer' = Undef /\ saveDebounceTimer' = Undef
    /\ proc' = "idle" /\ procTok' = NoToken
    /\ timerReqs' = << >>
    /\ waiting' = 0 /\ resuming' = 0
    /\ lastReturn' = NothingReturned
    /\ hSetTime' = Undef /\ hPendingSets' = 0 /\ hLastSet' = EmptySession
    /\ hRevoked' = FALSE /\ hWrittenSets' = 0
    /\ hOwner' = "" /\ hArmed' = 0 /\ hSaves' = 0 /\ fsFails' = fsFails
    /\ hFileSet' = hFileSet
    /\ hProc' = NoProc
    /\ hInst' = NoInst
    /\ UNCHANGED << now, file, nextTok >>

\* faulty variant: the finally block leaves the slot as it is
authenticateFinallyKeepsSlot(promise) == promise

\* authenticate(): `finally { this._authenticatingPromise = undefined }`, run
\* when the body's promise settles, resolved or rejected
authenticateFinally(promise) == FALSE

\* the promise of authenticate()'s body resolves: the first caller's finally
\* empties the slot and its getToken() returns; the joiners' continuations
\* are queued behind it
Complete(w, hp, hi) ==
    /\ Apply(w)
    /\ authenticatingPromise' = authenticateFinally(authenticatingPromise)
    /\ proc' = "idle" /\ procTok' = NoToken
    /\ waiting' = 0 /\ resuming' = waiting
    /\ lastReturn' = Returned(w.accessToken)
    /\ hProc' = [hp EXCEPT !.done = TRUE, !.result = w.accessToken]
    /\ hInst' = FirstReturn(hi, w.accessToken, w.saveDebounceTimer)

\* faulty variant: the pending promise is not reused
authenticateNoReuse(promise) == FALSE

\* authenticate(): `if (this._authenticatingPromise) return it`
authenticateReuses(promise) == promise

\* faulty variant: getToken() authenticates on every call
getTokenAlwaysAuthenticates(w) == TRUE

\* getToken(): `if (!this.hasValidToken()) await this.authenticate()`
getTokenAuthenticates(w) == ~hasValidToken(w)

\* getToken() with a valid cached token
GetTokenCached ==
    /\ username # ""
    /\ ~getTokenAuthenticates(W)
    /\ lastReturn' = Returned(accessToken)
    /\ hInst' = FirstReturn(hInst, accessToken, saveDebounceTimer)
    /\ UNCHANGED << now, username, storage, emailOtp, verboseLogging, accessToken, accessTokenExpiration,
                    refreshToken, refreshTokenExpiration, authenticatingPromise,
                    refreshTimer, saveDebounceTimer, file, proc, procTok, timerReqs,
                    waiting, resuming, nextTok,
                    hSetTime, hPendingSets, hLastSet, hRevoked, hWrittenSets, hOwner, hArmed, hSaves, hFileSet, fsFails, hProc >>

\* getToken() -> authenticate() while the slot is set: returns the pending promise
GetTokenJoin ==
    /\ username # ""
    /\ getTokenAuthenticates(W)
    /\ authenticateReuses(authenticatingPromise)
    /\ waiting < MaxWaiters
    /\ waiting' = waiting + 1
    /\ hProc' = [hProc EXCEPT !.joined = @ + 1]
    /\ UNCHANGED << now, username, storage, emailOtp, verboseLogging, accessToken, accessTokenExpiration,
                    refreshToken, refreshTokenExpiration, authenticatingPromise,
                    refreshTimer, saveDebounceTimer, file, proc, procTok, timerReqs,
                    resuming, lastReturn, nextTok,
                    hSetTime, hPendingSets, hLastSet, hRevoked, hWrittenSets, hOwner, hArmed, hSaves, hFileSet, fsFails, hInst >>

\* faulty variant: the fallback warning goes through logVerbose(), which
\* prints only when verbose logging is on
fallbackWarningVerboseOnly(verbose) == IF verbose THEN 1 ELSE 0

\* authenticate(): console.warn('... Falling back to credential login - THIS
\* WILL SEND EMAIL'), the statement before getTokenFromCredentials() is
\* called: the number of warning-level lines it prints
fallbackWarning(verbose) == 1

\* faulty variant: the body goes to the password grant without trying the refresh grant
authenticateSyncSkipsRefresh(w) ==
    IF ~isAccessTokenExpired(w) /\ ~isRefreshTokenExpired(w)
    THEN [w |-> w, next |-> "return"]
    ELSE [w |-> w, next |-> "awaitCred"]

\* faulty variant: the body has no short-circuit for unexpired tokens
authenticateSyncNoShortCircuit(w) ==
    LET r == refreshSync(w) IN
    [w |-> r.w, next |-> IF r.sent THEN "awaitRefresh" ELSE "awaitCred"]

\* what the body of authenticate() does up to its first network await
authenticateSync(w) ==
    IF ~isAccessTokenExpired(w) /\ ~isRefreshTokenExpired(w)
    THEN [w |-> w, next |-> "return"]
    ELSE LET r == refreshSync(w) IN
         [w |-> r.w, next |-> IF r.sent THEN "awaitRefresh" ELSE "awaitCred"]

\* getToken() -> authenticate() with the slot empty: starts the procedure
GetTokenStart ==
    /\ username # ""
    /\ getTokenAuthenticates(W)
    /\ ~authenticateReuses(authenticatingPromise)
    /\ LET a == authenticateSync(W)
           h == [NoProc EXCEPT
                   !.hadRefresh = (refreshToken # NoToken /\ ~isRefreshTokenExpired(W)),
                   !.afterRevoke = hRevoked,
                   !.refreshReqs = IF a.next = "awaitRefresh" THEN 1 ELSE 0,
                   !.pwdReqs = IF a.next = "awaitCred" THEN 1 ELSE 0,
                   !.warned = IF a.next = "awaitCred"
                              THEN fallbackWarning(verboseLogging) ELSE 0]
       IN  /\ Apply(a.w)
           /\ IF a.next = "return"
              THEN /\ authenticatingPromise' = authenticateFinally(TRUE)
                   /\ proc' = "idle" /\ procTok' = NoToken
                   /\ lastReturn' = Returned(a.w.accessToken)
                   /\ hProc' = [h EXCEPT !.done = TRUE, !.result = a.w.accessToken]
                   /\ hInst' = FirstReturn(hInst, a.w.accessToken, a.w.saveDebounceTimer)
              ELSE /\ authenticatingPromise' = TRUE
                   /\ proc' = a.next
                   /\ procTok' = IF a.next = "awaitRefresh" THEN refreshToken ELSE NoToken
                   /\ lastReturn' = lastReturn
                   /\ hProc' = h
                   /\ hInst' = IF a.next = "awaitRefresh" THEN SentRefresh(hInst)
                                                           ELSE SentPwd(hInst)
    /\ UNCHANGED << now, username, storage, emailOtp, verboseLogging, timerReqs, waiting, resuming, nextTok >>

\* a joiner's continuation runs: its getToken() returns this._accessToken
Resume ==
    /\ resuming > 0
    /\ resuming' = resuming - 1
    /\ lastReturn' = Returned(accessToken)
    /\ hProc' = [hProc EXCEPT !.resumed = @ + 1]
    /\ UNCHANGED << now, username, storage, emailOtp, verboseLogging, accessToken, accessTokenExpiration,
                    refreshToken, refreshTokenExpiration, authenticatingPromise,
                    refreshTimer, saveDebounceTimer, file, proc, procTok, timerReqs,
                    waiting, nextTok, hSetTime, hPendingSets, hLastSet, hRevoked, hWrittenSets, hOwner, hArmed, hSaves, hFileSet, fsFails,
                    hInst >>

\* the procedure's refresh-grant request is answered 200 with a token-set
ProcRefreshOk(lt) ==
    /\ proc = "awaitRefresh" /\ ~MicrotasksPending
    /\ nextTok <= MaxTok
    /\ Complete(setTokens(W, TokenResponse(nextTok, lt)),
                [hProc EXCEPT !.refreshOk = TRUE], hInst)
    /\ nextTok' = nextTok + 1
    /\ UNCHANGED << now, username, storage, emailOtp, verboseLogging, timerReqs >>

\* ... or fails (err: "invalid_grant", or "other" for any other failure or a
\* non-200 answer); the body goes on to getTokenFromCredentials()
ProcRefreshFail(err) ==
    /\ proc = "awaitRefresh" /\ ~MicrotasksPending
    /\ Apply(refreshCatch(W, err))
    /\ proc' = "awaitCred" /\ procTok' = NoToken
    /\ hProc' = [hProc EXCEPT !.pwdReqs = @ + 1,
                              !.warned = @ + fallbackWarning(verboseLogging)]
    /\ hInst' = SentPwd(GrantFailed(AnsweredInvalid(hInst, err, procTok)))
    /\ UNCHANGED << now, username, storage, emailOtp, verboseLogging, authenticatingPromise, timerReqs,
                    waiting, resuming, lastReturn, nextTok >>

\* the procedure's password-grant request is answered 200 with a token-set
ProcCredOk(lt) ==
    /\ proc = "awaitCred" /\ ~MicrotasksPending
    /\ nextTok <= MaxTok
    /\ Complete(setTokens(W, TokenResponse(nextTok, lt)), hProc,
                [hInst EXCEPT !.otpUsed = @ \/ emailOtp])
    /\ nextTok' = nextTok + 1
    /\ UNCHANGED << now, username, storage, emailOtp, verboseLogging, timerReqs >>

\* ... or is rejected with err, or answered other than 200; the catch block
\* does not look at the error: setTokens(undefined)
ProcCredFail(err) ==
    /\ proc = "awaitCred" /\ ~MicrotasksPending
    /\ Complete(setTokens(W, NoResponse),
                [hProc EXCEPT !.failed = TRUE, !.credErr = err], GrantFailed(hInst))
    /\ UNCHANGED << now, username, storage, emailOtp, verboseLogging, timerReqs, nextTok >>

\* the proactive timer's callback starts
TimerFire ==
    /\ TimerDue /\ ~MicrotasksPending
    /\ LET r == refreshSync([W EXCEPT !.refreshTimer = Undef, !.hArmed = @ - 1]) IN
       /\ r.sent => Len(timerReqs) < MaxTimerReqs
       /\ Apply(r.w)
       /\ timerReqs' = IF r.sent THEN Append(timerReqs, refreshToken) ELSE timerReqs
       /\ hInst' = Fired(IF r.sent THEN SentRefresh(hInst) ELSE hInst)
    /\ UNCHANGED << now, username, storage, emailOtp, verboseLogging, authenticatingPromise, proc, procTok,
                    waiting, resuming, lastReturn, nextTok, hProc >>

\* a timer callback's refresh-grant request is answered 200 with a token-set
TimerRefreshOk(i, lt) ==
    /\ i \in 1..Len(timerReqs) /\ ~MicrotasksPending
    /\ nextTok <= MaxTok
    /\ Apply(setTokens(W, TokenResponse(nextTok, lt)))
    /\ timerReqs' = RemoveAt(timerReqs, i)
    /\ nextTok' = nextTok + 1
    /\ UNCHANGED << now, username, storage, emailOtp, verboseLogging, authenticatingPromise, proc, procTok,
                    waiting, resuming, lastReturn, hProc, hInst >>

\* ... or fails
TimerRefreshFail(i, err) ==
    /\ i \in 1..Len(timerReqs) /\ ~MicrotasksPending
    /\ Apply(refreshCatch(W, err))
    /\ timerReqs' = RemoveAt(timerReqs, i)
    /\ hInst' = GrantFailed(AnsweredInvalid(hInst, err, timerReqs[i]))
    /\ UNCHANGED << now, username, storage, emailOtp, verboseLogging, authenticatingPromise, proc, procTok,
                    waiting, resuming, lastReturn, nextTok, hProc >>

\* the debounce timer's callback writes the file
DebounceFire ==
    /\ DebounceDue /\ ~MicrotasksPending
    /\ Apply(saveCallback(W))
    /\ hInst' = Closed(hInst, Undef)
    /\ UNCHANGED << now, username, storage, emailOtp, verboseLogging, authenticatingPromise, proc, procTok,
                    timerReqs, waiting, resuming, lastReturn, nextTok, hProc >>

\* the clock moves on by one tick, unless a timer is due or a continuation queued
Advance ==
    /\ ~MicrotasksPending /\ ~TimerDue /\ ~DebounceDue
    /\ now' = now + 1
    /\ UNCHANGED << username, storage, emailOtp, verboseLogging, accessToken, accessTokenExpiration,
                    refreshToken, refreshTokenExpiration, authenticatingPromise,
                    refreshTimer, saveDebounceTimer, file, proc, procTok, timerReqs,
                    waiting, resuming, lastReturn, nextTok,
                    hSetTime, hPendingSets, hLastSet, hRevoked, hWrittenSets, hOwner, hArmed, hSaves, hFileSet, fsFails, hProc, hInst >>

Tick == now < MaxTime /\ Advance

Errors == {"invalid_grant", "other"}
\* rejections of the password grant: invalid_grant with a description asking
\* for the one-time code, or with one saying the credentials are wrong
CredErrors == {"otp_required", "invalid_credentials"}

\* An account without two-factor authentication: login() is given no
\* one-time code and a rejected password grant means wrong credentials.
\* NextOtp below covers the configurations with a code.
Next ==
    \/ \E u \in Users, st \in BOOLEAN : Login(u, st, FALSE)
    \/ Restart
    \/ GetTokenCached
    \/ GetTokenJoin
    \/ GetTokenStart
    \/ Resume
    \/ \E lt \in Lifetimes : ProcRefreshOk(lt)
    \/ \E err \in Errors : ProcRefreshFail(err)
    \/ \E lt \in Lifetimes : ProcCredOk(lt)
    \/ ProcCredFail("invalid_credentials")
    \/ TimerFire
    \/ \E i \in 1..MaxTimerReqs, lt \in Lifetimes : TimerRefreshOk(i, lt)
    \/ \E i \in 1..MaxTimerReqs, err \in Errors : TimerRefreshFail(i, err)
    \/ DebounceFire
    \/ Tick

Spec == Init /\ [][Next]_vars

\* The proactive chain on its own: one login, then only the timer runs, and
\* every timer-triggered refresh is answered with a token-set at once (before
\* the clock moves on), with a refresh lifetime longer than the access lifetime.
MaxChainTime == 12
ChainLifetimes == { <<5, 10>>, <<5, 6>>, <<10, 15>> }

TickChain ==
    /\ now < MaxChainTime
    /\ timerReqs = << >>
    /\ Advance

NextChain ==
    \/ \E u \in Users, st \in BOOLEAN : Login(u, st, FALSE)
    \/ GetTokenStart
    \/ GetTokenCached
    \/ \E lt \in ChainLifetimes : ProcCredOk(lt)
    \/ TimerFire
    \/ \E lt \in ChainLifetimes : TimerRefreshOk(1, lt)
    \/ DebounceFire
    \/ TickChain

SpecChain == Init /\ [][NextChain]_vars

\* The one-time-code configurations: login() with or without a code, and a
\* password grant that is rejected for either reason; one process, no restart.
NextOtp ==
    \/ \E u \in Users, st \in BOOLEAN, otp \in BOOLEAN : Login(u, st, otp)
    \/ GetTokenCached
    \/ GetTokenJoin
    \/ GetTokenStart
    \/ Resume
    \/ \E lt \in Lifetimes : ProcRefreshOk(lt)
    \/ \E err \in Errors : ProcRefreshFail(err)
    \/ \E lt \in Lifetimes : ProcCredOk(lt)
    \/ \E err \in CredErrors : ProcCredFail(err)
    \/ TimerFire
    \/ \E i \in 1..MaxTimerReqs, lt \in Lifetimes : TimerRefreshOk(i, lt)
    \/ \E i \in 1..MaxTimerReqs, err \in Errors : TimerRefreshFail(i, err)
    \/ DebounceFire
    \/ Tick

SpecOtp == Init /\ [][NextOtp]_vars

\* One process watched for longer, so that a token-set obtained after a
\* refresh grant failed is itself refreshed: no restart.
MaxLongTime == 10

TickLong == now < MaxLongTime /\ Advance

NextLong ==
    \/ \E u \in Users, st \in BOOLEAN : Login(u, st, FALSE)
    \/ GetTokenCached
    \/ GetTokenJoin
    \/ GetTokenStart
    \/ Resume
    \/ \E lt \in Lifetimes : ProcRefreshOk(lt)
    \/ \E err \in Errors : ProcRefreshFail(err)
    \/ \E lt \in Lifetimes : ProcCredOk(lt)
    \/ ProcCredFail("invalid_credentials")
    \/ TimerFire
    \/ \E i \in 1..MaxTimerReqs, lt \in Lifetimes : TimerRefreshOk(i, lt)
    \/ \E i \in 1..MaxTimerReqs, err \in Errors : TimerRefreshFail(i, err)
    \/ DebounceFire
    \/ TickLong

SpecLong == Init /\ [][NextLong]_vars

\* A process that starts over the durable record an earlier process left:
\* the record holds token-set 1 for some user with any of the expiries below,
\* or only a username, and the clock stands at RestoreStart when the process begins.
RestoreStart == 5
RestoreExpiries == {2, 4, 6, 8}
RestoreRecords ==
    { [ username |-> u, refreshToken |-> 1, refreshTokenExpiration |-> toISOString(r),
        accessToken |-> 1, accessTokenExpiration |-> toISOString(a) ] :
      u \in Users, a \in RestoreExpiries, r \in RestoreExpiries }
\* ... or is malformed: valid JSON with the username and no token fields
MalformedRecords ==
    { [ username |-> u, refreshToken |-> NoToken, refreshTokenExpiration |-> << >>,
        accessToken |-> NoToken, accessTokenExpiration |-> << >> ] : u \in Users }

InitRestore ==
    /\ now = RestoreStart
    /\ username = "" /\ storage = FALSE /\ emailOtp = FALSE /\ verboseLogging = FALSE
    /\ accessToken = NoToken /\ accessTokenExpiration = Undef
    /\ refreshToken = NoToken /\ refreshTokenExpiration = Undef
    /\ authenticatingPromise = FALSE
    /\ refreshTimer = Undef /\ saveDebounceTimer = Undef
    /\ file \in { << rec >> : rec \in RestoreRecords \cup MalformedRecords }
    /\ proc = "idle" /\ procTok = NoToken
    /\ timerReqs = << >>
    /\ waiting = 0 /\ resuming = 0
    /\ lastReturn = NothingReturned
    /\ nextTok = 2
    /\ hSetTime = Undef /\ hPendingSets = 0 /\ hLastSet = EmptySession
    /\ hRevoked = FALSE /\ hWrittenSets = 0
    /\ hOwner = "" /\ hArmed = 0 /\ hSaves = 0 /\ fsFails = FALSE
    /\ hFileSet = EmptySession
    /\ hProc = NoProc
    /\ hInst = NoInst

SpecRestore == InitRestore /\ [][Next]_vars

\* The logging configurations: login() with verbose logging on or off; one
\* process, no restart.
NextLog ==
    \/ \E u \in Users, st \in BOOLEAN, verbose \in BOOLEAN : LoginWith(u, st, FALSE, verbose)
    \/ GetTokenCached
    \/ GetTokenJoin
    \/ GetTokenStart
    \/ Resume
    \/ \E lt \in Lifetimes : ProcRefreshOk(lt)
    \/ \E err \in Errors : ProcRefreshFail(err)
    \/ \E lt \in Lifetimes : ProcCredOk(lt)
    \/ ProcCredFail("invalid_credentials")
    \/ TimerFire
    \/ \E i \in 1..MaxTimerReqs, lt \in Lifetimes : TimerRefreshOk(i, lt)
    \/ \E i \in 1..MaxTimerReqs, err \in Errors : TimerRefreshFail(i, err)
    \/ DebounceFire
    \/ Tick

SpecLog == Init /\ [][NextLog]_vars

\* login() called again on the running instance: the arguments are stored
\* and restoreTokensFromStorage() runs once more
Relogin(u, st, otp, verbose) ==
    /\ username # "" /\ ~MicrotasksPending
    /\ username' = u /\ storage' = st /\ emailOtp' = otp /\ verboseLogging' = verbose
    /\ Apply(restoreTokensFromStorage([W EXCEPT !.username = u, !.storage = st]))
    /\ UNCHANGED << now, authenticatingPromise, proc, procTok, timerReqs,
                    waiting, resuming, lastReturn, nextTok, hProc, hInst >>

\* A caller that calls login() again with the arguments it gave before; one
\* process, no restart.
NextRelogin ==
    \/ \E u \in Users, st \in BOOLEAN : Login(u, st, FALSE)
    \/ Relogin(username, storage, emailOtp, verboseLogging)
    \/ GetTokenCached
    \/ GetTokenJoin
    \/ GetTokenStart
    \/ Resume
    \/ \E lt \in Lifetimes : ProcRefreshOk(lt)
    \/ \E err \in Errors : ProcRefreshFail(err)
    \/ \E lt \in Lifetimes : ProcCredOk(lt)
    \/ ProcCredFail("invalid_credentials")
    \/ TimerFire
    \/ \E i \in 1..MaxTimerReqs, lt \in Lifetimes : TimerRefreshOk(i, lt)
    \/ \E i \in 1..MaxTimerReqs, err \in Errors : TimerRefreshFail(i, err)
    \/ DebounceFire
    \/ Tick

SpecRelogin == Init /\ [][NextRelogin]_vars

\* One process in which every request the procedure has posted is answered
\* in the end, and every queued continuation runs: the event loop runs the
\* microtask queue, and the endpoint (or the HTTP client's failure) settles
\* each awaited request.
MaxLiveTime == 4
\* short-lived token-sets, so that access tokens expire within that time
LiveLifetimes == { <<2, 5>> }

TickLive == now < MaxLiveTime /\ Advance

ProcAnswered ==
    \/ \E err \in Errors : ProcRefreshFail(err)
    \/ ProcCredFail("invalid_credentials")
    \/ \E lt \in LiveLifetimes : ProcRefreshOk(lt)
    \/ \E lt \in LiveLifetimes : ProcCredOk(lt)

TimerAnswered ==
    \/ \E i \in 1..MaxTimerReqs, err \in Errors : TimerRefreshFail(i, err)
    \/ \E i \in 1..MaxTimerReqs, lt \in LiveLifetimes : TimerRefreshOk(i, lt)

NextLive ==
    \/ \E u \in Users : Login(u, TRUE, FALSE)
    \/ GetTokenCached
    \/ GetTokenJoin
    \/ GetTokenStart
    \/ Resume
    \/ ProcAnswered
    \/ TimerFire
    \/ TimerAnswered
    \/ DebounceFire
    \/ TickLive

SpecLive ==
    /\ Init /\ [][NextLive]_vars
    /\ WF_vars(ProcAnswered) /\ WF_vars(TimerAnswered) /\ WF_vars(Resume)

\* A process whose file system starts refusing the token file's operations
\* (the storage directory becomes read-only): from then on readFileSync,
\* writeFileSync and unlinkSync throw.
FsFault ==
    /\ username # "" /\ ~fsFails /\ ~MicrotasksPending
    /\ fsFails' = TRUE
    /\ UNCHANGED << now, username, storage, emailOtp, verboseLogging, accessToken, accessTokenExpiration,
                    refreshToken, refreshTokenExpiration, authenticatingPromise,
                    refreshTimer, saveDebounceTimer, file, proc, procTok, timerReqs,
                    waiting, resuming, lastReturn, nextTok,
                    hSetTime, hPendingSets, hLastSet, hRevoked, hWrittenSets, hOwner, hArmed, hSaves, hFileSet, hProc, hInst >>

NextIO ==
    \/ \E u \in Users : Login(u, TRUE, FALSE)
    \/ FsFault
    \/ GetTokenCached
    \/ GetTokenJoin
    \/ GetTokenStart
    \/ Resume
    \/ \E lt \in Lifetimes : ProcRefreshOk(lt)
    \/ \E err \in Errors : ProcRefreshFail(err)
    \/ \E lt \in Lifetimes : ProcCredOk(lt)
    \/ ProcCredFail("invalid_credentials")
    \/ TimerFire
    \/ \E i \in 1..MaxTimerReqs, lt \in Lifetimes : TimerRefreshOk(i, lt)
    \/ \E i \in 1..MaxTimerReqs, err \in Errors : TimerRefreshFail(i, err)
    \/ DebounceFire
    \/ Tick

SpecIO == Init /\ [][NextIO]_vars

\* A caller that calls login() again on the running instance for another
\* username, at a moment when no request of the instance is outstanding.
SwitchUser(u) ==
    /\ u # username /\ proc = "idle" /\ timerReqs = << >>
    /\ Relogin(u, storage, emailOtp, verboseLogging)

NextSwitch ==
    \/ \E u \in Users : Login(u, TRUE, FALSE)
    \/ \E u \in Users : SwitchUser(u)
    \/ GetTokenCached
    \/ GetTokenJoin
    \/ GetTokenStart
    \/ Resume
    \/ \E lt \in Lifetimes : ProcRefreshOk(lt)
    \/ \E err \in Errors : ProcRefreshFail(err)
    \/ \E lt \in Lifetimes : ProcCredOk(lt)
    \/ ProcCredFail("invalid_credentials")
    \/ TimerFire
    \/ \E i \in 1..MaxTimerReqs, lt \in Lifetimes : TimerRefreshOk(i, lt)
    \/ \E i \in 1..MaxTimerReqs, err \in Errors : TimerRefreshFail(i, err)
    \/ DebounceFire
    \/ Tick

SpecSwitch == Init /\ [][NextSwitch]_vars

\* ------------------------------------------------- the polling revision
\* src/src/services/token.service.ts: the same class with a 30-second
\* interval in place of the one-shot proactive timer.  refreshTimer holds the
\* time of the interval's next tick (Undef: no interval), timerReqs the
\* request of a body of authenticate() that the interval's callback started:
\* the refresh token a refresh grant carries, or Undef for a password grant.
PollPeriod == 1
LoginBuffer == 2
MaxPollTime == 6
\* token-sets whose refresh token comes within the buffer of its expiry after
\* the access token has expired, and before
PollLifetimes == { <<2, 5>>, <<4, 3>> }

\* `clearInterval(this._refreshInterval); this._refreshInterval = setInterval(...)`
startAutoRefresh(w) == armRefreshTimer(cancelRefreshTimer(w), w.now + PollPeriod)

pollClearTokens(w) ==
    [cancelRefreshTimer(w) EXCEPT
              !.accessToken = NoToken, !.refreshToken = NoToken,
              !.accessTokenExpiration = Undef, !.refreshTokenExpiration = Undef,
              !.hOwner = "",
              !.hFileSet = IF unlink(w) = << >> THEN EmptySession ELSE @,
              !.file = unlink(w)]

pollSetTokens(w, response) ==
    IF ~response.ok THEN pollClearTokens(w)
    ELSE saveTokensToStorage(startAutoRefresh(
            [w EXCEPT !.accessToken = response.tok,
                      !.refreshToken = response.tok,
                      !.accessTokenExpiration = w.now + response.expires_in,
                      !.refreshTokenExpiration = w.now + response.refresh_expires_in,
                      !.hSetTime = w.now, !.hOwner = w.username,
                      !.hRevoked = FALSE]))

pollRestoreTokensFromStorage(w) ==
    IF ~w.storage THEN w
    ELSE IF w.file = << >> THEN w
    ELSE IF w.fsFails THEN w
    ELSE LET data == w.file[1]
             w1 == [w EXCEPT !.refreshToken = data.refreshToken,
                             !.refreshTokenExpiration = DateFromJSON(data.refreshTokenExpiration),
                             !.accessToken = data.accessToken,
                             !.accessTokenExpiration = DateFromJSON(data.accessTokenExpiration),
                             !.hSetTime = Undef, !.hOwner = data.username]
         IN  IF data.username # w.username THEN w
             ELSE IF ~isRefreshTokenExpired(w1) THEN startAutoRefresh(w1)
             ELSE w1

\* what the body of authenticate() does up to its first network await:
\* getTokenFromRefreshToken() returns undefined for an expired refresh token
\* and clears nothing
pollAuthenticateSync(w) ==
    IF ~isAccessTokenExpired(w) /\ ~isRefreshTokenExpired(w)
    THEN [w |-> w, next |-> "return"]
    ELSE [w |-> w, next |-> IF isRefreshTokenExpired(w) THEN "awaitCred"
                                                        ELSE "awaitRefresh"]

\* faulty variant: the callback authenticates on every tick
pollCallsAlways(w) == TRUE

\* the interval's callback: `exp = this._refreshTokenExpiration?.getTime() ?? 0`
\* and `if (exp - now < bufferTime)`; NaN for an Invalid Date compares false
pollCalls(w) ==
    IF w.refreshTokenExpiration = InvalidDate THEN FALSE
    ELSE (IF w.refreshTokenExpiration = Undef THEN 0 ELSE w.refreshTokenExpiration)
            - w.now < LoginBuffer

\* faulty variant: the callback runs the body itself and does not look at the
\* pending promise
pollBypassesGate(promise) == FALSE

\* the callback's `await this.authenticate()` returns the pending promise
\* when the slot is set
pollJoins(promise) == authenticateReuses(promise)

PollLogin(u, st) ==
    /\ username = ""
    /\ username' = u /\ storage' = st
    /\ Apply(pollRestoreTokensFromStorage([W EXCEPT !.username = u, !.storage = st]))
    /\ UNCHANGED << now, emailOtp, verboseLogging, authenticatingPromise, proc, procTok,
                    timerReqs, waiting, resuming, lastReturn, nextTok, hProc, hInst >>

\* getToken() -> authenticate() with the slot empty
PollGetTokenStart ==
    /\ username # ""
    /\ getTokenAuthenticates(W)
    /\ ~authenticateReuses(authenticatingPromise)
    /\ LET a == pollAuthenticateSync(W)
           h == [NoProc EXCEPT
                   !.hadRefresh = (refreshToken # NoToken /\ ~isRefreshTokenExpired(W)),
                   !.refreshReqs = IF a.next = "awaitRefresh" THEN 1 ELSE 0,
                   !.pwdReqs = IF a.next = "awaitCred" THEN 1 ELSE 0]
       IN  IF a.next = "return"
           THEN /\ authenticatingPromise' = authenticateFinally(TRUE)
                /\ proc' = "idle" /\ procTok' = NoToken
                /\ lastReturn' = Returned(accessToken)
                /\ hProc' = [h EXCEPT !.done = TRUE, !.result = accessToken]
           ELSE /\ authenticatingPromise' = TRUE
                /\ proc' = a.next
                /\ procTok' = IF a.next = "awaitRefresh" THEN refreshToken ELSE NoToken
                /\ lastReturn' = lastReturn
                /\ hProc' = h
    /\ UNCHANGED << now, username, storage, emailOtp, verboseLogging, accessToken, accessTokenExpiration,
                    refreshToken, refreshTokenExpiration,
                    refreshTimer, saveDebounceTimer, file, timerReqs,
                    waiting, resuming, nextTok,
                    hSetTime, hPendingSets, hLastSet, hRevoked, hWrittenSets, hOwner, hArmed, hSaves, hFileSet, fsFails, hInst >>

PollProcRefreshOk(lt) ==
    /\ proc = "awaitRefresh" /\ ~MicrotasksPending
    /\ nextTok <= MaxTok
    /\ Complete(pollSetTokens(W, TokenResponse(nextTok, lt)),
                [hProc EXCEPT !.refreshOk = TRUE], hInst)
    /\ nextTok' = nextTok + 1
    /\ UNCHANGED << now, username, storage, emailOtp, verboseLogging, timerReqs >>

\* any failure or non-200 answer: getTokenFromRefreshToken() returns undefined
PollProcRefreshFail ==
    /\ proc = "awaitRefresh" /\ ~MicrotasksPending
    /\ proc' = "awaitCred" /\ procTok' = NoToken
    /\ hProc' = [hProc EXCEPT !.pwdReqs = @ + 1]
    /\ UNCHANGED << now, username, storage, emailOtp, verboseLogging, accessToken, accessTokenExpiration,
                    refreshToken, refreshTokenExpiration, authenticatingPromise,
                    refreshTimer, saveDebounceTimer, file, timerReqs,
                    waiting, resuming, lastReturn, nextTok,
                    hSetTime, hPendingSets, hLastSet, hRevoked, hWrittenSets, hOwner, hArmed, hSaves, hFileSet, fsFails, hInst >>

PollProcCredOk(lt) ==
    /\ proc = "awaitCred" /\ ~MicrotasksPending
    /\ nextTok <= MaxTok
    /\ Complete(pollSetTokens(W, TokenResponse(nextTok, lt)), hProc, hInst)
    /\ nextTok' = nextTok + 1
    /\ UNCHANGED << now, username, storage, emailOtp, verboseLogging, timerReqs >>

PollProcCredFail ==
    /\ proc = "awaitCred" /\ ~MicrotasksPending
    /\ Complete(pollSetTokens(W, NoResponse), [hProc EXCEPT !.failed = TRUE], hInst)
    /\ UNCHANGED << now, username, storage, emailOtp, verboseLogging, timerReqs, nextTok >>

\* a tick of the interval: the callback calls authenticate() when the refresh
\* token is within the buffer of its expiry
IntervalFire ==
    /\ TimerDue /\ ~MicrotasksPending
    /\ LET calls == pollCalls(W)
           joins == pollJoins(authenticatingPromise)
           a == pollAuthenticateSync(W)
           starts == calls /\ ~joins /\ a.next # "return"
       IN  /\ starts => Len(timerReqs) < MaxTimerReqs
           /\ Apply([W EXCEPT !.refreshTimer = now + PollPeriod])
           /\ timerReqs' = IF starts
                           THEN Append(timerReqs, IF a.next = "awaitRefresh"
                                                  THEN refreshToken ELSE Undef)
                           ELSE timerReqs
           /\ authenticatingPromise' =
                 IF starts THEN TRUE
                 ELSE IF calls /\ ~joins THEN authenticateFinally(TRUE)
                 ELSE authenticatingPromise
    /\ UNCHANGED << now, username, storage, emailOtp, verboseLogging, proc, procTok,
                    waiting, resuming, lastReturn, nextTok, hProc, hInst >>

\* the body the callback started resolves: its finally empties the slot and
\* the getToken() calls that joined it go on
IntervalComplete(w) ==
    /\ Apply(w)
    /\ timerReqs' = << >>
    /\ authenticatingPromise' = authenticateFinally(authenticatingPromise)
    /\ waiting' = 0 /\ resuming' = waiting
    /\ UNCHANGED << now, username, storage, emailOtp, verboseLogging, proc, procTok,
                    lastReturn, hProc, hInst >>

IntervalRefreshOk(lt) ==
    /\ Len(timerReqs) = 1 /\ timerReqs[1] # Undef /\ ~MicrotasksPending
    /\ nextTok <= MaxTok
    /\ IntervalComplete(pollSetTokens(W, TokenResponse(nextTok, lt)))
    /\ nextTok' = nextTok + 1

IntervalRefreshFail ==
    /\ Len(timerReqs) = 1 /\ timerReqs[1] # Undef /\ ~MicrotasksPending
    /\ timerReqs' = << Undef >>
    /\ UNCHANGED << now, username, storage, emailOtp, verboseLogging, accessToken, accessTokenExpiration,
                    refreshToken, refreshTokenExpiration, authenticatingPromise,
                    refreshTimer, saveDebounceTimer, file, proc, procTok,
                    waiting, resuming, lastReturn, nextTok,
                    hSetTime, hPendingSets, hLastSet, hRevoked, hWrittenSets, hOwner, hArmed, hSaves, hFileSet, fsFails, hProc, hInst >>

IntervalCredOk(lt) ==
    /\ Len(timerReqs) = 1 /\ timerReqs[1] = Undef /\ ~MicrotasksPending
    /\ nextTok <= MaxTok
    /\ IntervalComplete(pollSetTokens(W, TokenResponse(nextTok, lt)))
    /\ nextTok' = nextTok + 1

IntervalCredFail ==
    /\ Len(timerReqs) = 1 /\ timerReqs[1] = Undef /\ ~MicrotasksPending
    /\ IntervalComplete(pollSetTokens(W, NoResponse))
    /\ nextTok' = nextTok

TickPoll == now < MaxPollTime /\ Advance

NextPoll ==
    \/ \E u \in Users, st \in BOOLEAN : PollLogin(u, st)
    \/ Restart
    \/ GetTokenCached
    \/ GetTokenJoin
    \/ PollGetTokenStart
    \/ Resume
    \/ \E lt \in PollLifetimes : PollProcRefreshOk(lt)
    \/ PollProcRefreshFail
    \/ \E lt \in PollLifetimes : PollProcCredOk(lt)
    \/ PollProcCredFail
    \/ IntervalFire
    \/ \E lt \in PollLifetimes : IntervalRefreshOk(lt)
    \/ IntervalRefreshFail
    \/ \E lt \in PollLifetimes : IntervalCredOk(lt)
    \/ IntervalCredFail
    \/ DebounceFire
    \/ TickPoll

SpecPoll == Init /\ [][NextPoll]_vars

\* ------------------------------------------------------------------ claims
Outstanding == (IF proc = "idle" THEN 0 ELSE 1) + Len(timerReqs)
SessionEmpty == Session(W) = EmptySession
ProcRequests == hProc.refreshReqs + hProc.pwdReqs

\* a step of the running instance in which a joiner's getToken() returns
ResumeStep == username' # "" /\ resuming' < resuming
\* a step in which the promise of authenticate()'s body resolves
CompleteStep == username' # "" /\ ~hProc.done /\ hProc'.done
\* a step in which a getToken() call joins the pending promise
JoinStep == waiting' > waiting

\* C1, as stated: the getToken() calls that share one procedure cause exactly
\* one request to the identity endpoint.
C1_ExactlyOneRequest == hProc.done => ProcRequests = 1

\* C1, amended: the N calls share one procedure.  A joining call sends
\* nothing; while the slot is set the only request added is the procedure's
\* own password grant after its refresh grant returned without tokens, so the
\* procedure sends at most one request of each kind; every joiner's getToken()
\* resolves to the token the first caller's resolved to.
C1_Step ==
    /\ JoinStep => /\ UNCHANGED << proc, procTok, timerReqs >>
                   /\ ProcRequests' = ProcRequests
    /\ (authenticatingPromise /\ proc' # proc)
          => (proc' = "idle" \/ (proc = "awaitRefresh" /\ proc' = "awaitCred"))
    /\ (authenticatingPromise /\ authenticatingPromise')
          => /\ hProc'.refreshReqs = hProc.refreshReqs
             /\ hProc'.pwdReqs >= hProc.pwdReqs
    /\ hProc'.refreshReqs <= 1 /\ hProc'.pwdReqs <= 1
    /\ (ProcRequests' = 2) => ~hProc'.refreshOk
    /\ ResumeStep => lastReturn' = Returned(hProc.result)
C1_SingleFlight == [][C1_Step]_vars

\* two joiners and the first caller resolved to one token, after a procedure
\* that sent a refresh grant and then a password grant
C1_Witness ==
    /\ hProc.done /\ hProc.joined >= 2 /\ hProc.resumed = hProc.joined
    /\ ProcRequests = 2
    /\ hProc.result # NoToken /\ lastReturn = Returned(hProc.result)

\* C2, as stated: a procedure that starts with an unexpired refresh token never
\* sends a password grant, whatever the refresh grant's outcome.
C2_NeverPassword == hProc.hadRefresh => hProc.pwdReqs = 0

\* C2, amended: a procedure that starts with an unexpired refresh token sends
\* no password grant when its refresh grant yields tokens; it sends one only
\* after its refresh grant was sent and returned without tokens.
C2_RefreshPreference ==
    hProc.hadRefresh =>
        /\ hProc.refreshOk => hProc.pwdReqs = 0
        /\ hProc.pwdReqs >= 1 => (hProc.refreshReqs = 1 /\ ~hProc.refreshOk)

\* a procedure that began with a live refresh token ended on its refresh grant
C2_Witness ==
    /\ hProc.done /\ hProc.hadRefresh /\ hProc.refreshOk
    /\ hProc.refreshReqs = 1 /\ hProc.pwdReqs = 0
    /\ accessToken = hProc.result /\ accessToken # NoToken

\* C3: the Session is empty, or all four fields are set and both expiries are
\* later than the time setTokens() assigned them.
C3_SessionCoherence ==
    \/ SessionEmpty
    \/ /\ accessToken # NoToken /\ refreshToken # NoToken
       /\ accessTokenExpiration \notin {Undef, InvalidDate}
       /\ refreshTokenExpiration \notin {Undef, InvalidDate}
       /\ hSetTime # Undef => /\ accessTokenExpiration > hSetTime
                              /\ refreshTokenExpiration > hSetTime

\* C4: never two identity-endpoint requests of the instance outstanding
\* together, the timer callback's included.
C4_TimerJoinsGate == Outstanding <= 1

\* C5: after a refresh grant was answered invalid_grant and until the next
\* token-set, the Session is empty and there is no durable record; a procedure
\* started in that time sends no refresh grant (it logs in with the password).
C5_RevocationClear ==
    /\ (storage /\ hRevoked) => (SessionEmpty /\ file = << >>)
    /\ hProc.afterRevoke => hProc.refreshReqs = 0

\* the JSON the save callback writes for a Session (absent fields left absent)
RecordOf(u, sess) ==
    [ username |-> u, refreshToken |-> sess[3], refreshTokenExpiration |-> toISOString(sess[4]),
      accessToken |-> sess[1], accessTokenExpiration |-> toISOString(sess[2]) ]

\* a step in which the debounce timer's callback runs
WriteStep == username' # "" /\ saveDebounceTimer # Undef /\ saveDebounceTimer' = Undef

\* C6: K >= 1 token-sets that each schedule a save within the debounce window
\* of the one before produce exactly one write: one callback is pending for
\* them, due one window after the last set; the file is written by that
\* callback only; the callback consumes all K sets and writes the Session as
\* it is then, which is the K-th set's state when nothing but the sets touched
\* the Session.
C6_Step ==
    /\ WriteStep =>
          /\ hPendingSets >= 1 /\ hPendingSets' = 0
          /\ file' = << RecordOf(username, Session(W)) >>
          /\ Session(W) = hLastSet => file' = << RecordOf(username, hLastSet) >>
    /\ (file' # file /\ file' # << >>) => WriteStep
    /\ (hPendingSets' >= 1) <=> (saveDebounceTimer' # Undef)
    /\ saveDebounceTimer' # Undef => saveDebounceTimer' = hSetTime' + DebounceDelay
C6_DebounceCoalescing == [][C6_Step]_vars

\* one write stood for two token-sets and holds the second one's state
C6_Witness ==
    /\ hWrittenSets = 2 /\ hPendingSets = 0
    /\ refreshToken # NoToken /\ Session(W) = hLastSet
    /\ file = << RecordOf(username, hLastSet) >>

\* C7 (under SpecChain): once a login has set tokens, the timer is armed for
\* 0.8 * L after the token-set or its refresh request is outstanding, and the
\* refresh token is never expired.
C7_ProactiveChain ==
    hSetTime # Undef =>
        /\ refreshToken # NoToken /\ ~isRefreshTokenExpired(W)
        /\ refreshTimer # Undef \/ Len(timerReqs) = 1
        /\ refreshTimer # Undef =>
              5 * refreshTimer = 5 * hSetTime + 4 * (accessTokenExpiration - hSetTime)

\* the timer fired and its refresh re-armed it, with no getToken() call since
\* the login
C7_Witness ==
    /\ nextTok = 3 /\ hSetTime > 0 /\ refreshTimer > hSetTime
    /\ lastReturn = Returned(1) /\ accessToken = 2

\* C8: login() on a fresh instance for a username other than the durable
\* record's adopts nothing and arms no timer: the Session is empty afterwards.
C8_Step ==
    (username = "" /\ username' # "" /\ file # << >> /\ file[1].username # username')
        => (SessionEmpty' /\ refreshTimer' = Undef /\ file' = file)
C8_RestoreFilter == [][C8_Step]_vars

\* logged in as "b" over a record with tokens of "a"; nothing adopted
C8_Witness ==
    /\ username = "b" /\ storage /\ file # << >>
    /\ file[1].username = "a" /\ file[1].refreshToken # NoToken
    /\ SessionEmpty /\ refreshTimer = Undef /\ proc = "idle" /\ ~hProc.done

C9_Step ==
    /\ (CompleteStep /\ hProc'.failed) =>
          (SessionEmpty' /\ lastReturn' = Returned(NoToken))
    /\ (ResumeStep /\ hProc.failed) => lastReturn' = Returned(NoToken)
ResolveStep ==
    username' # "" /\ (lastReturn' # lastReturn \/ ResumeStep \/ CompleteStep)

\* C10: a token getToken() resolves with is the Session's accessToken at that
\* moment and its expiry is not in the past.
C10_Step ==
    (ResolveStep /\ lastReturn'.tok # NoToken) =>
        /\ lastReturn' = Returned(accessToken')
        /\ accessTokenExpiration' >= now'
C10_ValidResult == [][C10_Step]_vars

\* the first caller and a joiner both resolved with the token just set
C10_Witness ==
    /\ hProc.done /\ hProc.joined >= 1 /\ hProc.resumed = hProc.joined
    /\ lastReturn.tok # NoToken /\ lastReturn.tok = accessToken
    /\ accessTokenExpiration > now

\* a step in which getToken() is called
GetTokenCall == GetTokenCached \/ GetTokenJoin \/ GetTokenStart

\* C11: a getToken() call made while hasValidToken() is true returns the cached
\* access token; it sends no request, leaves the file alone, and leaves the
\* Session fields, the pending-authentication slot and both timers unchanged.
C11_Step ==
    (username # "" /\ hasValidToken(W) /\ GetTokenCall) =>
        /\ lastReturn' = Returned(accessToken)
        /\ UNCHANGED << accessToken, accessTokenExpiration,
                        refreshToken, refreshTokenExpiration,
                        authenticatingPromise, refreshTimer, saveDebounceTimer,
                        file, proc, procTok, timerReqs, waiting, hProc >>
C11_CachedFastPath == [][C11_Step]_vars

\* a restarted process adopted a valid token and a getToken() call returned
\* it although no procedure has run in this process
C11_Witness ==
    /\ username # "" /\ hProc = NoProc /\ proc = "idle" /\ timerReqs = << >>
    /\ hasValidToken(W) /\ lastReturn = Returned(accessToken)
    /\ nextTok = 2 /\ file # << >>

\* C12, as stated: hasValidToken() is true exactly when accessToken is set and
\* accessTokenExpiration is strictly later than the current time.
C12_StrictlyLater ==
    hasValidToken(W) <=>
        (accessToken # NoToken /\ accessTokenExpiration \notin {Undef, InvalidDate}
         /\ accessTokenExpiration > now)

\* C13, as stated (scenario B, under SpecRestore): a process that adopted a
\* record with an unexpired refresh token and an expired access token, and
\* whose requests were all answered with tokens, has sent exactly one
\* refresh grant (the timer's included) and no password grant when its first
\* getToken() call returns a token.
C13_ScenarioB ==
    (/\ hInst.start = "refreshable" /\ ~hInst.grantFailed
     /\ hInst.firstTok \notin {Undef, NoToken})
        => (hInst.refreshSent = 1 /\ hInst.pwdSent = 0)

\* the first getToken() call of a process that began with a storage handle,
\* no durable record and no one-time code has returned a token, and the save
\* that token-set scheduled has not run yet
FreshReturned ==
    hInst.start = "fresh" /\ ~emailOtp /\ hInst.firstTok \notin {Undef, NoToken}

\* C14 (scenario A): when that call returns, exactly one password grant and
\* no refresh grant have been sent, the Session holds the returned token-set
\* and its save is due one debounce window after the token-set; the clock
\* does not pass that time without the callback running, and the callback
\* writes the record of that token-set.
C14_Step ==
    /\ FreshReturned' =>
          /\ hInst'.pwdSent = 1 /\ hInst'.refreshSent = 0
          /\ accessToken' = hInst'.firstTok /\ hLastSet' = Session(W)'
          /\ saveDebounceTimer' = hSetTime' + DebounceDelay
          /\ now' <= saveDebounceTimer'
          /\ file' = << >>
    /\ (FreshReturned /\ WriteStep) =>
          /\ now = hSetTime + DebounceDelay
          /\ file' = << RecordOf(username, hLastSet) >>
          /\ file'[1].accessToken = hInst.firstTok
C14_FreshLogin == [][C14_Step]_vars

\* the first process logged in with the password once and its token-set was
\* written one debounce window later
C14_Witness ==
    /\ storage /\ nextTok = 2 /\ accessToken = 1 /\ hInst.start = "closed"
    /\ hProc.done /\ hProc.pwdReqs = 1 /\ hProc.refreshReqs = 0
    /\ lastReturn = Returned(1)
    /\ hWrittenSets = 1 /\ now = hSetTime + DebounceDelay
    /\ file = << RecordOf(username, Session(W)) >>

\* the outcome the claim names; no path of getToken() produces it
OtpRequired == [kind |-> "otp_required", tok |-> NoToken]

\* C15, as stated (scenario C, under SpecOtp): when the password grant is
\* rejected asking for the one-time code, getToken() ends with OtpRequired,
\* which is not the outcome of a plain rejection of the credentials; the
\* Session is empty and the file is not touched.
C15_Step ==
    (CompleteStep /\ hProc'.credErr = "otp_required") =>
        (lastReturn' = OtpRequired /\ SessionEmpty' /\ file' = file)
C15_OtpRequired == [][C15_Step]_vars

\* C16, as stated: the record in the file, written by the debounced save,
\* always holds a refresh token.
C16_WritesHoldRefreshToken == file # << >> => file[1].refreshToken # NoToken

\* C17, as stated: a debounced write or a proactive timer that fires was
\* scheduled by the latest token-set (or restore) and no clear has happened
\* since: the write finds the Session the save was scheduled for, the timer
\* finds a Session and is the one armed for it.
C17_Step ==
    /\ WriteStep => Session(W) = hLastSet
    /\ TimerFire =>
          /\ ~SessionEmpty
          /\ hSetTime # Undef =>
                refreshTimer = hSetTime + CeilDiv(4 * (accessTokenExpiration - hSetTime), 5)
C17_Cancellation == [][C17_Step]_vars

\* getTokenFromCredentials(): `if (this._emailOtp) params.append('totp', ...)`;
\* the outstanding password grant carries the configured one-time code
CarriesTotp == proc = "awaitCred" /\ emailOtp

\* C18, as stated (under SpecOtp): once a password grant carrying the
\* one-time code has succeeded, no password grant of the instance carries it.
C18_OtpSingleUse == hInst.otpUsed => ~CarriesTotp

\* a step in which login() adopts the durable record
AdoptStep ==
    /\ username = "" /\ username' # "" /\ storage'
    /\ file # << >> /\ file[1].username = username'

\* C19, as stated (under SpecRestore): after restore adopts a record, the
\* proactive timer is armed if the restored refresh token is not expired and
\* is not armed if it is expired.
C19_Step ==
    AdoptStep => ((refreshTimer' # Undef) <=> ~isRefreshTokenExpired(W)')
C19_RestoreRearm == [][C19_Step]_vars

\* a step in which the procedure, or the timer callback, posts a refresh grant
ProcRefreshSent == proc # "awaitRefresh" /\ proc' = "awaitRefresh"
TimerRefreshSent == Len(timerReqs') > Len(timerReqs)

\* C20 (under SpecLong): a refresh grant posted by the instance, from
\* getToken() or from the timer, never carries a refresh token that an
\* earlier refresh grant of the instance was answered invalid_grant for, and
\* the Session never holds such a token.
C20_Step ==
    /\ ProcRefreshSent => procTok' \notin hInst.dead
    /\ TimerRefreshSent => timerReqs'[Len(timerReqs')] \notin hInst.dead
    /\ refreshToken' \notin hInst'.dead
C20_DeadTokenNotRetried == [][C20_Step]_vars

\* after token 1 was answered invalid_grant the instance logged in again and
\* the timer has posted a refresh grant carrying the new refresh token
C20_Witness ==
    /\ 1 \in hInst.dead /\ refreshToken \notin hInst.dead
    /\ Len(timerReqs) = 1 /\ timerReqs[1] = refreshToken /\ refreshToken # NoToken
    /\ hProc.afterRevoke /\ hProc.done /\ hProc.refreshReqs = 0 /\ hProc.pwdReqs = 1

\* C21 (under SpecLog): with verbose logging on or off, the procedure has
\* printed the fallback warning once for every password grant it has posted,
\* in the step that posts it, and has printed none while it has posted only a
\* refresh grant.
C21_WarningBeforePasswordGrant ==
    /\ hProc.warned = hProc.pwdReqs
    /\ (proc = "awaitRefresh" => hProc.warned = 0)
    /\ (proc = "awaitCred" => hProc.warned = 1)

\* with verbose logging off, the refresh grant failed and the password grant
\* is outstanding, its warning printed
C21_Witness ==
    /\ ~verboseLogging /\ username # ""
    /\ proc = "awaitCred" /\ hProc.refreshReqs = 1
    /\ hProc.pwdReqs = 1 /\ hProc.warned = 1

\* a step in which the first getToken() call of the instance returns
FirstReturnStep == username' # "" /\ hInst.firstTok = Undef /\ hInst'.firstTok # Undef

\* that call returns the access token login() restored, and the instance has
\* posted no request before
ReturnsRestored ==
    /\ hSetTime' = Undef /\ accessToken' # NoToken
    /\ lastReturn' = Returned(accessToken')
    /\ hInst.refreshSent = 0 /\ hInst.pwdSent = 0
    /\ proc = "idle" /\ proc' = "idle" /\ timerReqs = << >> /\ timerReqs' = << >>

\* C22, as stated (under SpecRestore): after login() adopted a record whose
\* access token is unexpired, the next getToken(), whenever it is called,
\* returns the restored access token and no request was posted before.
C22_WheneverCalled ==
    [][(FirstReturnStep /\ hInst.start = "valid") => ReturnsRestored]_vars

\* C22, amended (under SpecRestore): ... the next getToken() returns the
\* restored access token and no request was posted before, if it is called
\* while that token is unexpired and before the proactive timer that login()
\* armed has fired.
C22_Step ==
    ( /\ FirstReturnStep /\ hInst.start = "valid"
      /\ ~hInst.timerFired
      /\ file # << >> /\ file[1].accessTokenExpiration # << >>
      /\ now <= DateFromJSON(file[1].accessTokenExpiration) )
    => ReturnsRestored
C22_SeamlessRestart == [][C22_Step]_vars

\* login() adopted token-set 1, its timer is still armed, and the first
\* getToken() has returned token 1 with no token-set issued to the process
C22_Witness ==
    /\ hInst.start = "closed" /\ hProc = NoProc
    /\ lastReturn = Returned(1) /\ accessToken = 1
    /\ file # << >> /\ file[1].accessToken = 1 /\ file[1].username = username
    /\ refreshTimer # Undef /\ timerReqs = << >>
    /\ hSetTime = Undef /\ nextTok = 2

\* C23, as stated (under SpecRelogin): a second login() with the same
\* arguments, at any point, leaves the four Session fields as they were, and
\* with them the record the pending debounced write will store.
C23_Step ==
    Relogin(username, storage, emailOtp, verboseLogging) =>
        /\ Session(W)' = Session(W)
        /\ file' = file /\ saveDebounceTimer' = saveDebounceTimer
C23_InitIdempotence == [][C23_Step]_vars

\* C24, as stated (under SpecRestore): after login() has read a malformed
\* record, one with the configured username and the token fields missing, the
\* Session is empty.
C24_Step ==
    (AdoptStep /\ file[1] \in MalformedRecords) => SessionEmpty'
C24_DegradesToNoSession == [][C24_Step]_vars

\* C25 (under SpecLive): while a procedure is pending the slot is set, and
\* only then; every pending procedure completes and empties the slot; the
\* callers that joined it are then resumed, and every resumed caller returns;
\* with the slot empty and no valid token, after a success or a failure, a
\* getToken() call starts a fresh procedure.
C25_Termination ==
    /\ [](authenticatingPromise <=> proc # "idle")
    /\ (authenticatingPromise ~> ~authenticatingPromise)
    /\ ((waiting > 0 /\ resuming = 0) ~> (waiting = 0 /\ resuming > 0))
    /\ ((resuming > 0) ~> (resuming = 0))
    /\ []((username # "" /\ ~authenticatingPromise /\ ~hasValidToken(W))
             => ENABLED GetTokenStart)

\* a procedure failed, its caller got no token, and a fresh procedure is
\* pending with a caller joined to it
C25_Witness ==
    /\ lastReturn = Returned(NoToken)
    /\ authenticatingPromise /\ proc = "awaitCred"
    /\ waiting >= 1 /\ hProc.joined >= 1 /\ ~hProc.done

\* a step in which a refresh grant is answered invalid_grant
InvalidGrantStep ==
    \/ ProcRefreshFail("invalid_grant")
    \/ \E i \in 1..MaxTimerReqs : TimerRefreshFail(i, "invalid_grant")

\* C26, as stated (under SpecRestore): the durable record is deleted only in
\* a step in which a refresh grant is answered invalid_grant; not when both
\* grants fail otherwise, and not when getToken() is first called after
\* login() found another user's record.
C26_Step == (file # << >> /\ file' = << >>) => InvalidGrantStep
C26_DeletionOnlyOnRevocation == [][C26_Step]_vars

\* C27: in a procedure that started while the Session held an unexpired
\* refresh token, the refresh grant is posted first; no password grant is
\* posted while it is outstanding, and one is posted only after it came back
\* without tokens.
C27_RefreshBeforePassword ==
    hProc.hadRefresh =>
        /\ hProc.refreshReqs = 1 /\ hProc.pwdReqs <= 1
        /\ (proc = "awaitRefresh" => hProc.pwdReqs = 0)
        /\ (hProc.pwdReqs = 1 => (proc # "awaitRefresh" /\ ~hProc.refreshOk))
        /\ (hProc.refreshOk => hProc.done)

\* such a procedure has ended with the token-set of its password grant, the
\* refresh grant having failed without invalid_grant
C27_Witness ==
    /\ hProc.hadRefresh /\ hProc.done /\ ~hProc.failed
    /\ hProc.refreshReqs = 1 /\ hProc.pwdReqs = 1 /\ ~hProc.refreshOk
    /\ hProc.result # NoToken /\ accessToken = hProc.result
    /\ ~hRevoked /\ 1 \notin hInst.dead

\* C28 (under SpecLong): a firing proactive timer posts at most one refresh
\* grant and leaves the procedure and its slot alone (no password grant is
\* posted by the callback, also not after its refresh grant failed); when its
\* refresh grant succeeds the Session is replaced by the new token-set and
\* the timer is armed anew from the new expiries, at 0.8 of the new access
\* lifetime if that is before the new refresh expiry.
C28_Step ==
    /\ TimerFire =>
          /\ Len(timerReqs') <= Len(timerReqs) + 1
          /\ UNCHANGED << proc, procTok, authenticatingPromise, hProc >>
    /\ \A i \in 1..MaxTimerReqs, lt \in Lifetimes :
          TimerRefreshOk(i, lt) =>
             /\ Session(W)' = << nextTok, now + lt[1], nextTok, now + lt[2] >>
             /\ refreshTimer' = IF 4 * lt[1] < 5 * lt[2]
                                THEN now + CeilDiv(4 * lt[1], 5) ELSE Undef
             /\ UNCHANGED << proc, procTok, authenticatingPromise, hProc >>
    /\ \A i \in 1..MaxTimerReqs, err \in Errors :
          TimerRefreshFail(i, err) =>
             UNCHANGED << proc, procTok, authenticatingPromise, hProc >>
C28_RefreshOnlyTimer == [][C28_Step]_vars

\* the only procedure of the instance obtained token-set 1 with a password
\* grant; the timer's refresh grant has just been answered with token-set 2
\* and the timer is armed again
C28_Witness ==
    /\ hProc.done /\ hProc.result = 1 /\ hProc.refreshReqs = 0 /\ hProc.pwdReqs = 1
    /\ proc = "idle" /\ timerReqs = << >>
    /\ accessToken = 2 /\ refreshToken = 2 /\ nextTok = 3
    /\ hSetTime = now /\ refreshTimer = now + 4

\* a step in which the endpoint's token-set is assigned by setTokens()
TokenSetStep == nextTok' = nextTok + 1

\* C29 (under SpecLong): after every successful setTokens() the proactive
\* timer is armed if and only if now + 0.8 * (access lifetime) is strictly
\* before the refresh token's expiry, and then for that time (at the first
\* tick not before it).
C29_Step ==
    TokenSetStep =>
        LET fireAt5 == 5 * now + 4 * (accessTokenExpiration' - now) IN
        /\ (refreshTimer' # Undef) <=> (fireAt5 < 5 * refreshTokenExpiration')
        /\ refreshTimer' # Undef =>
              (fireAt5 <= 5 * refreshTimer' /\ 5 * refreshTimer' < fireAt5 + 5)
C29_TimerArmingGuard == [][C29_Step]_vars

\* a token-set whose refresh token expires before 0.8 of the access lifetime
\* has just been assigned: no timer is armed
C29_Witness ==
    /\ hSetTime = now /\ accessToken # NoToken
    /\ accessTokenExpiration = now + 5 /\ refreshTokenExpiration = now + 3
    /\ refreshTimer = Undef /\ saveDebounceTimer # Undef

\* a step in which a posted refresh grant fails with something other than
\* invalid_grant
OtherFailureStep ==
    \/ ProcRefreshFail("other")
    \/ \E i \in 1..MaxTimerReqs : TimerRefreshFail(i, "other")

\* C30 (under SpecLong): a refresh grant that fails with anything other than
\* invalid_grant leaves the four Session fields, the durable record, the
\* pending debounced save and the armed timer as they were.
C30_Step ==
    OtherFailureStep =>
        /\ Session(W)' = Session(W)
        /\ UNCHANGED << file, saveDebounceTimer, refreshTimer >>
C30_FailurePreservesState == [][C30_Step]_vars

\* the procedure's refresh grant for token-set 1 has failed and its password
\* grant is outstanding; the Session and the record still hold token-set 1
C30_Witness ==
    /\ proc = "awaitCred" /\ hProc.hadRefresh /\ hProc.refreshReqs = 1
    /\ nextTok = 2 /\ timerReqs = << >> /\ ~hRevoked
    /\ accessToken = 1 /\ refreshToken = 1
    /\ file # << >> /\ file[1].refreshToken = 1


\* C31 (under SpecRestore): when the body of authenticate() is entered while
\* neither the access token nor the refresh token is expired, it resolves at
\* once: no request is sent, and the four Session fields, the proactive
\* timer, the pending save and the durable record are left as they were.
C31_Step ==
    (GetTokenStart /\ ~isAccessTokenExpired(W) /\ ~isRefreshTokenExpired(W)) =>
        /\ UNCHANGED << accessToken, accessTokenExpiration, refreshToken,
                        refreshTokenExpiration, refreshTimer, saveDebounceTimer,
                        file, timerReqs >>
        /\ proc' = "idle" /\ authenticatingPromise' = FALSE
        /\ hProc'.done /\ hProc'.refreshReqs = 0 /\ hProc'.pwdReqs = 0
        /\ lastReturn'.kind = "resolved"

C31_ShortCircuitFrame == [][C31_Step]_vars

\* a procedure has completed without sending a request: its body was entered
\* with both tokens unexpired
C31_Witness ==
    /\ username # "" /\ hProc.done
    /\ hProc.refreshReqs = 0 /\ hProc.pwdReqs = 0
    /\ ~isAccessTokenExpired(W) /\ ~isRefreshTokenExpired(W)


\* the four Session fields hold one token-set: both tokens and both dates
Assigned(sess) ==
    /\ sess[1] # NoToken /\ sess[3] # NoToken
    /\ sess[2] \notin {Undef, InvalidDate} /\ sess[4] \notin {Undef, InvalidDate}

\* C32 (under SpecLong): a successful grant, from the procedure's refresh or
\* password request or from the timer's refresh request, assigns the four
\* Session fields of the new token-set and then triggers both the debounced
\* save (with a storage handle) and the (re)scheduling of the proactive timer,
\* each for the token-set just assigned; a durable write that carries a token
\* writes the Session's four fields as they were assigned before it, and a
\* timer firing posts the refresh token the Session holds.
C32_Step ==
    /\ TokenSetStep =>
          /\ Assigned(Session(W)')
          /\ accessToken' = nextTok /\ refreshToken' = nextTok
          /\ hSetTime' = now
          /\ storage => /\ saveDebounceTimer' = now + DebounceDelay
                        /\ hLastSet' = Session(W)'
                        /\ hPendingSets' >= 1
          /\ refreshTimer' # Undef <=>
                5 * now + 4 * (accessTokenExpiration' - now) < 5 * refreshTokenExpiration'
          /\ refreshTimer' # Undef =>
                refreshTimer' = now + CeilDiv(4 * (accessTokenExpiration' - now), 5)
    /\ (WriteStep /\ file' # file /\ file'[1].accessToken # NoToken) =>
          /\ Assigned(Session(W))
          /\ hSetTime # Undef => hSetTime <= now
          /\ file' = << RecordOf(username, Session(W)) >>
    /\ TimerRefreshSent =>
          /\ Assigned(Session(W))
          /\ timerReqs'[Len(timerReqs')] = refreshToken

C32_TokenSetOrdering == [][C32_Step]_vars

\* a procedure's refresh grant has succeeded on an instance with a durable
\* record written earlier: the save of the new token-set is pending and the
\* timer is armed anew
C32_Witness ==
    /\ username # "" /\ storage /\ hProc.refreshOk /\ hProc.done
    /\ hSetTime = now /\ saveDebounceTimer = now + DebounceDelay
    /\ refreshTimer # Undef /\ file # << >> /\ file[1].accessToken # accessToken


\* C33: at most one proactive-refresh timeout and at most one debounce
\* timeout of the instance are live in the event loop at any time, and each
\* live one is the one the instance's handle refers to: a timeout is created
\* only after the one before it was cancelled or has fired.
C33_TimerUniqueness ==
    /\ hArmed \in {0, 1} /\ hSaves \in {0, 1}
    /\ hArmed = 1 <=> refreshTimer # Undef
    /\ hSaves = 1 <=> saveDebounceTimer # Undef

\* a token-set has replaced an earlier one while the earlier one's timer was
\* armed and its save pending
C33_Witness ==
    /\ hArmed = 1 /\ hSaves = 1 /\ hPendingSets >= 2
    /\ refreshTimer # Undef /\ hSetTime = now /\ accessToken >= 2


\* a step in which clearTokens() runs: a refresh grant is answered
\* invalid_grant, the password grant fails, or getTokenFromRefreshToken()
\* finds the refresh token expired
ClearStep ==
    \/ InvalidGrantStep
    \/ ProcCredFail("invalid_credentials")
    \/ GetTokenStart /\ isRefreshTokenExpired(W)
    \/ TimerFire /\ isRefreshTokenExpired(W)

\* C34 (under SpecIO): when clearTokens() runs while the durable record
\* exists and its deletion fails, the four Session fields are unset and the
\* proactive timer is cancelled all the same, the record stays, and the
\* caller goes on as after any clear: the procedure posts the password grant
\* or resolves, the timer callback returns, and no getToken() call rejects.
C34_Step ==
    (ClearStep /\ storage /\ fsFails /\ file # << >>) =>
        /\ SessionEmpty'
        /\ refreshTimer' = Undef /\ hArmed' = 0
        /\ file' = file
        /\ lastReturn'.kind # "rejected"
        /\ ProcRefreshFail("invalid_grant") => proc' = "awaitCred"
        /\ ProcCredFail("invalid_credentials") =>
              (proc' = "idle" /\ lastReturn' = Returned(NoToken))
        /\ GetTokenStart => proc' = "awaitCred"
        /\ TimerFire => (proc' = proc /\ timerReqs' = timerReqs)
        /\ (\E i \in 1..MaxTimerReqs : TimerRefreshFail(i, "invalid_grant")) =>
              (proc' = proc /\ lastReturn' = lastReturn)

C34_BestEffortClear == [][C34_Step]_vars

\* a refresh grant was answered invalid_grant while deletions fail: the
\* Session is empty and the record of the revoked token-set is still there
C34_Witness ==
    /\ username # "" /\ storage /\ fsFails /\ hRevoked
    /\ SessionEmpty /\ refreshTimer = Undef
    /\ file # << >> /\ file[1].accessToken # NoToken


\* C35, as stated: when a refresh grant that carried refresh token t is
\* answered invalid_grant while the Session holds a newer token-set, whose
\* refresh token differs from t, the Session and the durable record are left
\* as they are.
C35_Step ==
    /\ \A i \in 1..MaxTimerReqs :
          ( /\ TimerRefreshFail(i, "invalid_grant")
            /\ refreshToken # NoToken /\ timerReqs[i] # refreshToken ) =>
                UNCHANGED << accessToken, accessTokenExpiration, refreshToken,
                             refreshTokenExpiration, file >>
    /\ ( /\ ProcRefreshFail("invalid_grant")
         /\ refreshToken # NoToken /\ procTok # refreshToken ) =>
                UNCHANGED << accessToken, accessTokenExpiration, refreshToken,
                             refreshTokenExpiration, file >>

C35_LateInvalidGrant == [][C35_Step]_vars


\* C36, as stated: whenever the instance has no request outstanding, the
\* Session holds a token-set, and the point 80% of the way from now to the
\* access token's expiry lies before the refresh token's expiry, a proactive
\* timer is armed; so after a timer's refresh grant fails with a transport
\* error a timer is armed again.
C36_ChainSurvives ==
    ( /\ username # "" /\ Outstanding = 0 /\ ~MicrotasksPending
      /\ Assigned(Session(W))
      /\ 5 * now + 4 * (accessTokenExpiration - now) < 5 * refreshTokenExpiration ) =>
        refreshTimer # Undef


\* C37: when the file holds the record that a debounced write made of a
\* Session with all four fields assigned, and a new process calls login()
\* with a storage handle for the record's username, the Session after
\* login() has the access token, the refresh token and the two expiry dates
\* of the Session that was written.
C37_Step ==
    (AdoptStep /\ ~fsFails /\ Assigned(hFileSet)) => Session(W)' = hFileSet

C38_Step ==
    /\ (ResolveStep /\ lastReturn'.tok # NoToken) => hOwner' = username'
    /\ (WriteStep /\ file' # file /\ file'[1].accessToken # NoToken) =>
          file'[1].username = hOwner

C38_TokensBoundToUser == [][C38_Step]_vars


\* a step in which clearTokens() of the polling revision runs
PollClearStep == PollProcCredFail \/ IntervalCredFail

\* C39 (under SpecPoll, the polling revision): the interval's callback starts
\* a body of authenticate() only when the refresh token's expiry (0 when
\* unset) is less than loginBuffer ahead; a request is posted by a getToken()
\* call or by the callback only when no request of the instance is
\* outstanding, so at most one is outstanding at any time; and after
\* clearTokens() no interval is running.
C39_Step ==
    /\ TimerRefreshSent =>
          /\ refreshTokenExpiration # InvalidDate
          /\ (IF refreshTokenExpiration = Undef THEN 0 ELSE refreshTokenExpiration) - now
                < LoginBuffer
    /\ (TimerRefreshSent \/ (proc = "idle" /\ proc' # "idle")) => Outstanding = 0
    /\ Outstanding' <= 1
    /\ PollClearStep => (SessionEmpty' /\ refreshTimer' = Undef /\ hArmed' = 0)
    /\ hArmed' <= 1

====
